---- MODULE Spec2Model ----
(***************************************************************************)
(* A model of telethon/client/chats.py: ChatMethods.iter_participants (an  *)
(* asynchronous generator) and ChatMethods.get_participants (its eager     *)
(* wrapper).  One behaviour of the model is one call, from its arguments   *)
(* to its end.  The steps are the pieces of code between two suspension    *)
(* points (an awaited request, a yield) and the iterations of the loops.   *)
(***************************************************************************)
EXTENDS Integers, Sequences, FiniteSets, TLC

(***************************************************************************)
(* Bounds of the model.                                                    *)
(***************************************************************************)
\* the largest finite limit a caller passes (limits are 0..MaxLimit or None)
MaxLimit == 2
\* the largest number of participant records in one response
MaxResp == 2
\* the number of participant records the server holds for one request filter
MaxShardLen == 3

(***************************************************************************)
(* Program constants.                                                      *)
(***************************************************************************)
\* limit=200 of every GetParticipantsRequest, and the clamp min(.., 200)
PageSize == 200
\* total > 10000: Telegram's cap on one filtered query
AggressiveCap == 10000
\* float('inf'): larger than every offset and every count of the model
Infinity == 1000000
\* limit=None, the default of the parameter
NoneLimit == -1

(***************************************************************************)
(* Text.  A string is a sequence of one-character strings; str.lower() and *)
(* the `in` of two strings are computed, not assumed.                      *)
(***************************************************************************)
Letters ==
    << "a", "b", "c", "d", "e", "f", "g", "h", "i", "j", "k", "l", "m",
       "n", "o", "p", "q", "r", "s", "t", "u", "v", "w", "x", "y", "z" >>

Uppers ==
    << "A", "B", "C", "D", "E", "F", "G", "H", "I", "J", "K", "L", "M",
       "N", "O", "P", "Q", "R", "S", "T", "U", "V", "W", "X", "Y", "Z" >>

\* str.lower() on one character
LowerChar(c) ==
    IF \E n \in 1..Len(Uppers) : Uppers[n] = c
    THEN Letters[CHOOSE n \in 1..Len(Uppers) : Uppers[n] = c]
    ELSE c

\* str.lower()
Lower(s) == [n \in 1..Len(s) |-> LowerChar(s[n])]

\* Python's `s in t` for two strings
IsSubstring(s, t) ==
    \E n \in 0..(Len(t) - Len(s)) : SubSeq(t, n + 1, n + Len(s)) = s

(***************************************************************************)
(* The users the server knows.  username.some = FALSE is Python's None.    *)
(***************************************************************************)
NoUsername == [some |-> FALSE, s |-> << >>]

Username(s) == [some |-> TRUE, s |-> s]

UserTable ==
    << [id |-> 1, name |-> <<"A", "z">>, username |-> NoUsername],
       [id |-> 2, name |-> <<"z">>, username |-> NoUsername],
       [id |-> 3, name |-> <<"Z">>, username |-> Username(<<"z">>)],
       [id |-> 4, name |-> <<"Z">>, username |-> Username(<<"z", "a">>)],
       [id |-> 5, name |-> <<"Z", "z">>, username |-> Username(<< >>)] >>

UserIds == DOMAIN UserTable

\* the user with id u; ids past the table repeat its rows
UserOf(u) == UserTable[1 + ((u - 1) % Len(UserTable))]

\* the members of the channels and basic groups of the model
Members == {1, 2, 3}

\* utils.get_display_name(ent): the formatted display name of a user
get_display_name(ent) == ent.name

(***************************************************************************)
(* Filters.  tag "none" is None, "type" a bare filter class, "inst" a      *)
(* filter instance; hasq says whether the instance was built with a `q`.   *)
(***************************************************************************)
NoFilter == [tag |-> "none", name |-> "", hasq |-> FALSE, q |-> << >>]

FilterType(n) == [tag |-> "type", name |-> n, hasq |-> FALSE, q |-> << >>]

FilterInst(n) == [tag |-> "inst", name |-> n, hasq |-> FALSE, q |-> << >>]

\* types.ChannelParticipantsSearch(q)
ChannelParticipantsSearch(q) ==
    [tag |-> "inst", name |-> "ChannelParticipantsSearch", hasq |-> TRUE, q |-> q]

\* the truth value of a filter argument: None is false, an object is true
Truthy(f) == f.tag # "none"

\* lines 55-62: a bare filter class is instantiated
NormalizeFilter(f) ==
    IF f.tag = "type"
    THEN IF f.name \in {"ChannelParticipantsBanned",
                        "ChannelParticipantsKicked",
                        "ChannelParticipantsSearch"}
         THEN [tag |-> "inst", name |-> f.name, hasq |-> TRUE, q |-> << >>]
         ELSE [tag |-> "inst", name |-> f.name, hasq |-> FALSE, q |-> << >>]
    ELSE f

(***************************************************************************)
(* The arguments of a call.                                                *)
(***************************************************************************)
\* participants_count of the channels of the model: at and above the cap
Counts == {AggressiveCap, AggressiveCap + 1}

\* what get_input_entity resolves to: InputPeerChannel, InputPeerChat, or
\* anything else (a user); count is the channel's reported participants
Entities ==
    {[kind |-> "channel", id |-> 0, count |-> c] : c \in Counts}
    \cup {[kind |-> "chat", id |-> 0, count |-> 0]}
    \cup {[kind |-> "user", id |-> u, count |-> 0] : u \in UserIds}

LimitArgs == (0..MaxLimit) \cup {NoneLimit}

SearchArgs == {<< >>, <<"A">>}

FilterArgs ==
    {NoFilter,
     FilterType("ChannelParticipantsSearch"),
     FilterType("ChannelParticipantsAdmins"),
     FilterInst("ChannelParticipantsAdmins")}

Min(a, b) == IF a < b THEN a ELSE b

\* all sequences over S of length at most n
SeqsUpTo(S, n) == UNION {[1..m -> S] : m \in 0..n}

VARIABLES
    args,          \* entity, limit, search, filter, aggressive of the call
    caller,        \* "iter": iter_participants called directly; "get": through get_participants
    pc,            \* where the call is
    error,         \* the exception that ended the call, "" if none
    filter,        \* local: the filter after lines 55-62
    search,        \* local: the search string (lower-cased at line 68)
    limit,         \* local: the limit after line 77
    total,         \* local: total of the channel path
    cell,          \* _total: given says whether a list was passed, val is _total[0]
    writes,        \* history: how many times _total[0] was assigned
    requests,      \* the list of GetParticipantsRequest
    results,       \* the responses to the last batch
    i,             \* index of the response being processed (1-based)
    j,             \* index of the participant record being processed (1-based)
    seen,          \* identifiers of the users yielded on the channel path
    full,          \* the answer to GetFullChatRequest
    have,          \* local: have of the basic group path
    ylog,          \* history: every yield, with the batch, request and record it came from
    sent,          \* history: the request list as issued in the last batch
    rpc,           \* history: how many requests of each sort were issued
    fe,            \* history: the last application of filter_entity
    participants,  \* get_participants: the UserList
    ret,           \* get_participants: the returned list and its .total
    server,        \* the participant list the server keeps, when it keeps one
    other,         \* the variables of a second call while this one runs
    cur,           \* which of two calls is the running one
    alone          \* what each of two calls yielded and reported running alone

\* what no step of a call changes: the server's list and the other call
world == << server, other, cur, alone >>

vars ==
    << args, caller, pc, error, filter, search, limit, total, cell, writes,
       requests, results, i, j, seen, full, have, ylog, sent, rpc, fe,
       participants, ret, world >>

NoFull == [fetched |-> FALSE, resolved |-> FALSE, participants |-> << >>]

NoRet == [returned |-> FALSE, items |-> << >>, total |-> 0]

\* a server that keeps no list and answers as it likes
AnyServer == [slices |-> FALSE, list |-> << >>]

NoCall == [applied |-> FALSE, ent |-> 0, res |-> ""]

\* the state of a call before its first step: lines 15-17 and 175-179
Begin ==
    /\ caller = "get" => ~args.total
    /\ pc = IF caller = "get" THEN "get" ELSE "start"
    /\ error = ""
    /\ filter = args.filter
    /\ search = args.search
    /\ limit = args.limit
    /\ total = 0
    /\ cell = [given |-> args.total, val |-> 0]
    /\ writes = 0
    /\ requests = << >>
    /\ results = << >>
    /\ i = 0
    /\ j = 0
    /\ seen = {}
    /\ full = NoFull
    /\ have = 0
    /\ ylog = << >>
    /\ sent = << >>
    /\ rpc = [input_entity |-> 0, full_channel |-> 0, batches |-> 0,
              full_chat |-> 0, get_entity |-> 0]
    /\ fe = NoCall
    /\ participants = << >>
    /\ ret = NoRet

\* one call, against a server that answers as it likes
Init ==
    /\ caller \in {"iter", "get"}
    /\ args \in [entity : Entities, limit : LimitArgs, search : SearchArgs,
                 filter : FilterArgs, aggressive : BOOLEAN, total : BOOLEAN]
    /\ Begin
    /\ server = AnyServer
    /\ other = << >>
    /\ cur = 1
    /\ alone = << >>

(***************************************************************************)
(* get_participants, lines 180-183: the cell total = [0] is passed as      *)
(* _total, whatever the caller passed, and the list starts empty.          *)
(***************************************************************************)
get_participants ==
    /\ pc = "get"
    /\ cell' = [given |-> TRUE, val |-> 0]
    /\ participants' = << >>
    /\ pc' = "start"
    /\ UNCHANGED << world, args, caller, error, filter, search, limit, total, writes,
                    requests, results, i, j, seen, full, have, ylog, sent,
                    rpc, fe, ret >>

(***************************************************************************)
(* Lines 55-77: the filter is normalised, the entity resolved, the local   *)
(* predicate chosen and the limit converted.                               *)
(***************************************************************************)
\* line 65: whether the searching filter_entity is the one defined
UsesLocalSearch(s, f, entity) ==
    s # << >> /\ (Truthy(f) \/ entity.kind # "channel")

\* line 77
ConvertLimit(l) == IF l = NoneLimit THEN Infinity ELSE l

IterStart ==
    /\ pc = "start"
    /\ filter' = NormalizeFilter(args.filter)
    /\ search' = IF UsesLocalSearch(args.search, filter', args.entity)
                 THEN Lower(args.search)
                 ELSE args.search
    /\ limit' = ConvertLimit(args.limit)
    /\ rpc' = [rpc EXCEPT !.input_entity = @ + 1]
    /\ pc' = "body"
    /\ UNCHANGED << world, args, caller, error, total, cell, writes, requests,
                    results, i, j, seen, full, have, ylog, sent, fe,
                    participants, ret >>

\* lines 70-75: filter_entity(ent); "AttributeError" is None.lower()
filter_entity(ent) ==
    IF UsesLocalSearch(search, filter, args.entity)
    THEN IF IsSubstring(search, Lower(get_display_name(ent)))
         THEN "True"
         ELSE IF ~ent.username.some \/ ent.username.s = << >>
              THEN "AttributeError"
              ELSE IF IsSubstring(search, Lower(ent.username.s))
                   THEN "True"
                   ELSE "False"
    ELSE "True"

(***************************************************************************)
(* The server.  A response to a GetParticipantsRequest holds participant   *)
(* records of users that match the request's filter, at most `limit` of    *)
(* them, and in `users` the users the records name.  Which users and in    *)
(* which order is the server's choice.                                     *)
(***************************************************************************)
\* whether the server lists user u under filter f: a filter with a `q`
\* searches name and username, another filter is a matter of roles
ServerMatches(f, u) ==
    IF f.hasq
    THEN \/ IsSubstring(Lower(f.q), Lower(u.name))
         \/ u.username.some /\ IsSubstring(Lower(f.q), Lower(u.username.s))
    ELSE TRUE

Candidates(f) == {u \in Members : ServerMatches(f, UserTable[u])}

Response(s) ==
    [participants |-> [n \in 1..Len(s) |-> [user_id |-> s[n]]],
     users |-> {s[n] : n \in 1..Len(s)}]

\* the possible responses to one request
Responses(req) ==
    LET room == Min(Min(MaxResp, req.limit), MaxShardLen - req.offset)
    IN {Response(s) :
            s \in SeqsUpTo(Candidates(req.filter), IF room < 0 THEN 0 ELSE room)}

\* the possible answers to a batch: one response per request, in order
RECURSIVE ResultLists(_)
ResultLists(reqs) ==
    IF reqs = << >>
    THEN {<< >>}
    ELSE {<<r>> \o rest : r \in Responses(Head(reqs)),
                         rest \in ResultLists(Tail(reqs))}

\* the list a server that keeps one holds for filter f: its participants
\* that match, in the order it keeps them
ListFor(f) ==
    SelectSeq(server.list, LAMBDA u : ServerMatches(f, UserOf(u)))

\* the records of s from offset on, at most n of them
Slice(s, offset, n) == SubSeq(s, offset + 1, Min(offset + n, Len(s)))

\* the answer of that server to a batch: per request the slice of its list
SliceAnswers(reqs) ==
    [n \in 1..Len(reqs) |->
        Response(Slice(ListFor(reqs[n].filter), reqs[n].offset, reqs[n].limit))]

\* the possible answers to a batch
Answers(reqs) ==
    IF server.slices THEN {SliceAnswers(reqs)} ELSE ResultLists(reqs)

\* no call of the model needs more batches than this
MaxBatches == MaxShardLen + 2

(***************************************************************************)
(* The channel path, lines 78-138.                                         *)
(***************************************************************************)
GetParticipantsRequest(f) == [filter |-> f, offset |-> 0, limit |-> PageSize]

\* line 79: whether GetFullChannelRequest is issued
NeedsTotal == cell.given \/ (args.aggressive /\ ~Truthy(filter))

\* line 92 with >= for >
IsAggressiveAtCap(t) == t >= AggressiveCap /\ args.aggressive /\ ~Truthy(filter)

\* line 92
IsAggressive(t) == t > AggressiveCap /\ args.aggressive /\ ~Truthy(filter)

\* lines 92-107
InitialRequests(t) ==
    IF IsAggressive(t)
    THEN [n \in 1..Len(Letters) |->
            GetParticipantsRequest(
                ChannelParticipantsSearch(search \o <<Letters[n]>>))]
    ELSE << GetParticipantsRequest(
                IF Truthy(filter) THEN filter
                ELSE ChannelParticipantsSearch(search)) >>

\* lines 78-107: the total is fetched when asked for or needed, written to
\* the cell, and the request list is built unless the limit is 0
ChannelPlan ==
    /\ pc = "body"
    /\ args.entity.kind = "channel"
    /\ total' = IF NeedsTotal THEN args.entity.count ELSE 0
    /\ rpc' = IF NeedsTotal THEN [rpc EXCEPT !.full_channel = @ + 1] ELSE rpc
    /\ cell' = IF cell.given THEN [cell EXCEPT !.val = total'] ELSE cell
    /\ writes' = IF cell.given THEN writes + 1 ELSE writes
    /\ IF limit = 0
       THEN /\ pc' = "done"
            /\ UNCHANGED << requests, seen >>
       ELSE /\ seen' = {}
            /\ requests' = InitialRequests(total')
            /\ pc' = "loop"
    /\ UNCHANGED << world, args, caller, error, filter, search, limit, results, i, j,
                    full, have, ylog, sent, fe, participants, ret >>

\* line 116 forgetting the offset
ClampFirstToLimit(reqs) ==
    [reqs EXCEPT ![1].limit = Min(limit, PageSize)]

\* line 116
ClampFirst(reqs) ==
    [reqs EXCEPT ![1].limit = Min(limit - reqs[1].offset, PageSize)]

\* line 117 breaking at the limit already
OffsetPastLimitOrAt(reqs) == reqs[1].offset >= limit

\* line 117 without the break
OffsetPastLimitNever(reqs) == FALSE

\* line 117
OffsetPastLimit(reqs) == reqs[1].offset > limit

\* line 109, the list is empty: the function ends
LoopExit ==
    /\ pc = "loop"
    /\ requests = << >>
    /\ pc' = "done"
    /\ UNCHANGED << world, args, caller, error, filter, search, limit, total, cell,
                    writes, requests, results, i, j, seen, full, have, ylog,
                    sent, rpc, fe, participants, ret >>

\* lines 116-118: break
LoopBreak ==
    /\ pc = "loop"
    /\ requests # << >>
    /\ requests' = ClampFirst(requests)
    /\ OffsetPastLimit(requests')
    /\ pc' = "done"
    /\ UNCHANGED << world, args, caller, error, filter, search, limit, total, cell,
                    writes, results, i, j, seen, full, have, ylog, sent, rpc,
                    fe, participants, ret >>

\* reversed(range(len(requests))): the first index and the one after n
FirstIndex(reqs) == Len(reqs)

NextIndex(n) == n - 1

\* lines 116-121: the batch is issued and answered
Batch ==
    /\ pc = "loop"
    /\ requests # << >>
    /\ requests' = ClampFirst(requests)
    /\ ~OffsetPastLimit(requests')
    /\ rpc.batches < MaxBatches
    /\ sent' = requests'
    /\ rpc' = [rpc EXCEPT !.batches = @ + 1]
    /\ \E res \in Answers(requests') : results' = res
    /\ i' = FirstIndex(requests')
    /\ pc' = "for_i"
    /\ UNCHANGED << world, args, caller, error, filter, search, limit, total, cell,
                    writes, j, seen, full, have, ylog, fe, participants, ret >>

\* list.pop() whatever the index
PopLast(seq, n) == SubSeq(seq, 1, Len(seq) - 1)

\* list.pop(n)
Pop(seq, n) == SubSeq(seq, 1, n - 1) \o SubSeq(seq, n + 1, Len(seq))

\* line 121, no index is left: back to line 109
ForEnd ==
    /\ pc = "for_i"
    /\ i < 1
    /\ pc' = "loop"
    /\ UNCHANGED << world, args, caller, error, filter, search, limit, total, cell,
                    writes, requests, results, i, j, seen, full, have, ylog,
                    sent, rpc, fe, participants, ret >>

\* lines 122-124: a response without users retires its request
Retire ==
    /\ pc = "for_i"
    /\ i >= 1
    /\ results[i].users = {}
    /\ requests' = Pop(requests, i)
    /\ i' = NextIndex(i)
    /\ UNCHANGED << world, args, caller, pc, error, filter, search, limit, total,
                    cell, writes, results, j, seen, full, have, ylog, sent,
                    rpc, fe, participants, ret >>

\* line 126 left out: the offset stays
AdvanceByNothing(resp) == 0

\* line 126 with one too many
AdvanceByOneMore(resp) == Len(resp.participants) + 1

\* line 126 counting the users of the response instead of its records
AdvanceByUsers(resp) == Cardinality(resp.users)

\* line 126: len(participants.participants)
AdvanceBy(resp) == Len(resp.participants)

\* lines 125-127: the offset advances by the number of records
Advance ==
    /\ pc = "for_i"
    /\ i >= 1
    /\ results[i].users # {}
    /\ requests' = [requests EXCEPT ![i].offset = @ + AdvanceBy(results[i])]
    /\ j' = 1
    /\ pc' = "for_p"
    /\ UNCHANGED << world, args, caller, error, filter, search, limit, total, cell,
                    writes, results, i, seen, full, have, ylog, sent, rpc, fe,
                    participants, ret >>

\* lines 128 and 155 walking the records from the last to the first
RecordAtReversed(list, n) == list[Len(list) - n + 1]

\* lines 128 and 155: the record the n-th iteration of the loop takes
RecordAt(list, n) == list[n]

\* line 130 without the test of the seen set
InSeenNever(u) == FALSE

\* line 130: user.id in seen
InSeen(u) == u \in seen

\* line 137 never returning
LimitReachedNever == FALSE

\* line 137 with > for >=: one user too many before the return
LimitReachedLate == Cardinality(seen) > limit

\* line 137
LimitReached == Cardinality(seen) >= limit

\* what a yield hands to the caller: the user with its .participant
Enriched(u, p) == [id |-> u, participant |-> p]

Yield(u, p, b, n, m) ==
    ylog' = Append(ylog, [user |-> Enriched(u, p), batch |-> b, idx |-> n,
                          pos |-> m])

Applied(u) == [applied |-> TRUE, ent |-> u, res |-> filter_entity(UserOf(u))]

\* line 128, no record is left: the next response
ParticipantsEnd ==
    /\ pc = "for_p"
    /\ j > Len(results[i].participants)
    /\ i' = NextIndex(i)
    /\ pc' = "for_i"
    /\ UNCHANGED << world, args, caller, error, filter, search, limit, total, cell,
                    writes, requests, results, j, seen, full, have, ylog,
                    sent, rpc, fe, participants, ret >>

\* lines 128-131: the predicate raises
ParticipantRaise ==
    /\ pc = "for_p"
    /\ j <= Len(results[i].participants)
    /\ LET u == RecordAt(results[i].participants, j).user_id
       IN /\ u \in results[i].users
          /\ fe' = Applied(u)
          /\ fe'.res = "AttributeError"
    /\ pc' = "failed"
    /\ error' = "AttributeError"
    /\ UNCHANGED << world, args, caller, filter, search, limit, total, cell, writes,
                    requests, results, i, j, seen, full, have, ylog, sent,
                    rpc, participants, ret >>

\* lines 128-131: continue
ParticipantSkip ==
    /\ pc = "for_p"
    /\ j <= Len(results[i].participants)
    /\ LET u == RecordAt(results[i].participants, j).user_id
       IN /\ u \in results[i].users
          /\ fe' = Applied(u)
          /\ fe'.res = "False" \/ (fe'.res = "True" /\ InSeen(u))
    /\ j' = j + 1
    /\ UNCHANGED << world, args, caller, pc, error, filter, search, limit, total,
                    cell, writes, requests, results, i, seen, full, have,
                    ylog, sent, rpc, participants, ret >>

\* lines 128-136: the user is marked seen and yielded with its record
ParticipantYield ==
    /\ pc = "for_p"
    /\ j <= Len(results[i].participants)
    /\ LET p == RecordAt(results[i].participants, j)
           u == p.user_id
       IN /\ u \in results[i].users
          /\ fe' = Applied(u)
          /\ fe'.res = "True"
          /\ ~InSeen(u)
          /\ seen' = seen \cup {p.user_id}
          /\ Yield(u, p, rpc.batches, i, j)
    /\ pc' = "yield_channel"
    /\ UNCHANGED << world, args, caller, error, filter, search, limit, total, cell,
                    writes, requests, results, i, j, full, have, sent, rpc,
                    participants, ret >>

\* line 184 with insert(0, x) for append(x)
CollectInFront(list, x) == <<x>> \o list

\* get_participants line 184; a direct caller keeps no list
Collect(list, x) == Append(list, x)

Consume ==
    participants' =
        IF caller = "get"
        THEN Collect(participants, ylog[Len(ylog)].user)
        ELSE participants

\* lines 137-138, when the caller asks for the next user
ChannelResume ==
    /\ pc = "yield_channel"
    /\ Consume
    /\ IF LimitReached
       THEN pc' = "done" /\ j' = j
       ELSE pc' = "for_p" /\ j' = j + 1
    /\ UNCHANGED << world, args, caller, error, filter, search, limit, total, cell,
                    writes, requests, results, i, seen, full, have, ylog,
                    sent, rpc, fe, ret >>

(***************************************************************************)
(* The basic group path, lines 140-165.                                    *)
(***************************************************************************)
\* whether no user occurs twice in s
Distinct(s) == \A m, n \in 1..Len(s) : s[m] = s[n] => m = n

\* full.full_chat.participants: ChatParticipantsForbidden, or ChatParticipants
\* with the members of the group, each once
FullChats ==
    {[fetched |-> TRUE, resolved |-> FALSE, participants |-> << >>]}
    \cup {[fetched |-> TRUE, resolved |-> TRUE,
           participants |-> [n \in 1..Len(s) |-> [user_id |-> s[n]]]] :
             s \in {t \in SeqsUpTo(Members, Cardinality(Members)) : Distinct(t)}}

\* lines 142-148: the list is forbidden; _total[0] = 0 whether or not a
\* cell was passed, and None[0] = 0 raises TypeError
ChatForbidden ==
    /\ pc = "body"
    /\ args.entity.kind = "chat"
    /\ \E f \in FullChats : ~f.resolved /\ full' = f
    /\ rpc' = [rpc EXCEPT !.full_chat = @ + 1]
    /\ IF cell.given
       THEN /\ cell' = [cell EXCEPT !.val = 0]
            /\ writes' = writes + 1
            /\ pc' = "done"
            /\ error' = error
       ELSE /\ pc' = "failed"
            /\ error' = "TypeError"
            /\ UNCHANGED << cell, writes >>
    /\ UNCHANGED << world, args, caller, filter, search, limit, total, requests,
                    results, i, j, seen, have, ylog, sent, fe, participants,
                    ret >>

\* lines 142-154: the list is there; the total is its length
ChatResolved ==
    /\ pc = "body"
    /\ args.entity.kind = "chat"
    /\ \E f \in FullChats : f.resolved /\ full' = f
    /\ rpc' = [rpc EXCEPT !.full_chat = @ + 1]
    /\ cell' = IF cell.given
               THEN [cell EXCEPT !.val = Len(full'.participants)]
               ELSE cell
    /\ writes' = IF cell.given THEN writes + 1 ELSE writes
    /\ have' = 0
    /\ j' = 1
    /\ pc' = "chat_for"
    /\ UNCHANGED << world, args, caller, error, filter, search, limit, total,
                    requests, results, i, seen, ylog, sent, fe, participants,
                    ret >>

\* line 160
OverLimit(h) == h > limit

\* lines 150-151 moved behind the loop: the total is written again at the end
ChatEndWritesTotal ==
    /\ pc = "chat_for"
    /\ j > Len(full.participants)
    /\ cell' = IF cell.given
               THEN [cell EXCEPT !.val = Len(full.participants)]
               ELSE cell
    /\ writes' = IF cell.given THEN writes + 1 ELSE writes
    /\ pc' = "done"
    /\ UNCHANGED << world, args, caller, error, filter, search, limit, total,
                    requests, results, i, j, seen, full, have, ylog, sent,
                    rpc, fe, participants, ret >>

\* line 155, no record is left: the function ends
ChatEnd ==
    /\ pc = "chat_for"
    /\ j > Len(full.participants)
    /\ pc' = "done"
    /\ UNCHANGED << world, args, caller, error, filter, search, limit, total, cell,
                    writes, requests, results, i, j, seen, full, have, ylog,
                    sent, rpc, fe, participants, ret >>

\* lines 155-157: the predicate raises
ChatRaise ==
    /\ pc = "chat_for"
    /\ j <= Len(full.participants)
    /\ fe' = Applied(RecordAt(full.participants, j).user_id)
    /\ fe'.res = "AttributeError"
    /\ pc' = "failed"
    /\ error' = "AttributeError"
    /\ UNCHANGED << world, args, caller, filter, search, limit, total, cell, writes,
                    requests, results, i, j, seen, full, have, ylog, sent,
                    rpc, participants, ret >>

\* lines 155-158: continue
ChatSkip ==
    /\ pc = "chat_for"
    /\ j <= Len(full.participants)
    /\ fe' = Applied(RecordAt(full.participants, j).user_id)
    /\ fe'.res = "False"
    /\ j' = j + 1
    /\ UNCHANGED << world, args, caller, pc, error, filter, search, limit, total,
                    cell, writes, requests, results, i, seen, full, have,
                    ylog, sent, rpc, participants, ret >>

\* lines 155-161: break
ChatBreak ==
    /\ pc = "chat_for"
    /\ j <= Len(full.participants)
    /\ fe' = Applied(RecordAt(full.participants, j).user_id)
    /\ fe'.res = "True"
    /\ have' = have + 1
    /\ OverLimit(have')
    /\ pc' = "done"
    /\ UNCHANGED << world, args, caller, error, filter, search, limit, total, cell,
                    writes, requests, results, i, j, seen, full, ylog, sent,
                    rpc, participants, ret >>

\* lines 155-165: the user is yielded with its record
ChatYield ==
    /\ pc = "chat_for"
    /\ j <= Len(full.participants)
    /\ fe' = Applied(RecordAt(full.participants, j).user_id)
    /\ fe'.res = "True"
    /\ have' = have + 1
    /\ ~OverLimit(have')
    /\ Yield(RecordAt(full.participants, j).user_id,
             RecordAt(full.participants, j), 0, 0, j)
    /\ pc' = "yield_chat"
    /\ UNCHANGED << world, args, caller, error, filter, search, limit, total, cell,
                    writes, requests, results, i, j, seen, full, sent, rpc,
                    participants, ret >>

\* line 155 again, when the caller asks for the next user
ChatResume ==
    /\ pc = "yield_chat"
    /\ Consume
    /\ j' = j + 1
    /\ pc' = "chat_for"
    /\ UNCHANGED << world, args, caller, error, filter, search, limit, total, cell,
                    writes, requests, results, i, seen, full, have, ylog,
                    sent, rpc, fe, ret >>

(***************************************************************************)
(* The single user path, lines 166-173.                                    *)
(***************************************************************************)
\* user.participant = None
NoParticipant == [user_id |-> 0]

\* line 169 without the test of the limit
WantsUserAlways == TRUE

\* line 169
WantsUser == limit # 0

\* lines 167-169
UserTotal ==
    /\ pc = "body"
    /\ args.entity.kind = "user"
    /\ cell' = IF cell.given THEN [cell EXCEPT !.val = 1] ELSE cell
    /\ writes' = IF cell.given THEN writes + 1 ELSE writes
    /\ pc' = IF WantsUser THEN "user_get" ELSE "done"
    /\ UNCHANGED << world, args, caller, error, filter, search, limit, total,
                    requests, results, i, j, seen, full, have, ylog, sent,
                    rpc, fe, participants, ret >>

\* lines 170-171: the entity is resolved and the predicate raises
UserRaise ==
    /\ pc = "user_get"
    /\ rpc' = [rpc EXCEPT !.get_entity = @ + 1]
    /\ fe' = Applied(args.entity.id)
    /\ fe'.res = "AttributeError"
    /\ pc' = "failed"
    /\ error' = "AttributeError"
    /\ UNCHANGED << world, args, caller, filter, search, limit, total, cell, writes,
                    requests, results, i, j, seen, full, have, ylog, sent,
                    participants, ret >>

\* lines 170-171: the entity is resolved and does not match
UserReject ==
    /\ pc = "user_get"
    /\ rpc' = [rpc EXCEPT !.get_entity = @ + 1]
    /\ fe' = Applied(args.entity.id)
    /\ fe'.res = "False"
    /\ pc' = "done"
    /\ UNCHANGED << world, args, caller, error, filter, search, limit, total, cell,
                    writes, requests, results, i, j, seen, full, have, ylog,
                    sent, participants, ret >>

\* lines 170-173: the entity is resolved and yielded without a record
UserYield ==
    /\ pc = "user_get"
    /\ rpc' = [rpc EXCEPT !.get_entity = @ + 1]
    /\ fe' = Applied(args.entity.id)
    /\ fe'.res = "True"
    /\ Yield(args.entity.id, NoParticipant, 0, 0, 0)
    /\ pc' = "yield_user"
    /\ UNCHANGED << world, args, caller, error, filter, search, limit, total, cell,
                    writes, requests, results, i, j, seen, full, have, sent,
                    participants, ret >>

\* the function ends when the caller asks for the next user
UserResume ==
    /\ pc = "yield_user"
    /\ Consume
    /\ pc' = "done"
    /\ UNCHANGED << world, args, caller, error, filter, search, limit, total, cell,
                    writes, requests, results, i, j, seen, full, have, ylog,
                    sent, rpc, fe, ret >>

(***************************************************************************)
(* get_participants, lines 185-186: the list is returned with .total.      *)
(***************************************************************************)
\* line 185
ReadTotal == cell.val

GetReturn ==
    /\ pc = "done"
    /\ caller = "get"
    /\ ret' = [returned |-> TRUE, items |-> participants, total |-> ReadTotal]
    /\ pc' = "returned"
    /\ UNCHANGED << world, args, caller, error, filter, search, limit, total, cell,
                    writes, requests, results, i, j, seen, full, have, ylog,
                    sent, rpc, fe, participants >>

(***************************************************************************)
(* A request that fails raises in the generator, which ends there; the     *)
(* failed request was issued and counts.                                   *)
(***************************************************************************)
FailsAndRetries(p, r) ==
    /\ pc = p
    /\ rpc' = [rpc EXCEPT ![r] = @ + 1]
    /\ pc' = p
    /\ error' = "RpcError"

Fails(p, r) ==
    /\ pc = p
    /\ rpc' = [rpc EXCEPT ![r] = @ + 1]
    /\ pc' = "failed"
    /\ error' = "RpcError"

\* line 64
InputEntityFail ==
    /\ Fails("start", "input_entity")
    /\ UNCHANGED << world, args, caller, filter, search, limit, total, cell, writes,
                    requests, results, i, j, seen, full, have, ylog, sent,
                    fe, participants, ret >>

\* lines 80-82
FullChannelFail ==
    /\ args.entity.kind = "channel"
    /\ NeedsTotal
    /\ Fails("body", "full_channel")
    /\ UNCHANGED << world, args, caller, filter, search, limit, total, cell, writes,
                    requests, results, i, j, seen, full, have, ylog, sent,
                    fe, participants, ret >>

\* lines 116-120
BatchFail ==
    /\ requests # << >>
    /\ requests' = ClampFirst(requests)
    /\ ~OffsetPastLimit(requests')
    /\ rpc.batches < MaxBatches
    /\ sent' = requests'
    /\ Fails("loop", "batches")
    /\ UNCHANGED << world, args, caller, filter, search, limit, total, cell, writes,
                    results, i, j, seen, full, have, ylog, fe, participants,
                    ret >>

\* lines 142-143
FullChatFail ==
    /\ args.entity.kind = "chat"
    /\ Fails("body", "full_chat")
    /\ UNCHANGED << world, args, caller, filter, search, limit, total, cell, writes,
                    requests, results, i, j, seen, full, have, ylog, sent,
                    fe, participants, ret >>

\* line 170
GetEntityFail ==
    /\ Fails("user_get", "get_entity")
    /\ UNCHANGED << world, args, caller, filter, search, limit, total, cell, writes,
                    requests, results, i, j, seen, full, have, ylog, sent,
                    fe, participants, ret >>

Next ==
    \/ get_participants
    \/ IterStart
    \/ ChannelPlan
    \/ LoopExit
    \/ LoopBreak
    \/ Batch
    \/ ForEnd
    \/ Retire
    \/ Advance
    \/ ParticipantsEnd
    \/ ParticipantRaise
    \/ ParticipantSkip
    \/ ParticipantYield
    \/ ChannelResume
    \/ ChatForbidden
    \/ ChatResolved
    \/ ChatEnd
    \/ ChatRaise
    \/ ChatSkip
    \/ ChatBreak
    \/ ChatYield
    \/ ChatResume
    \/ UserTotal
    \/ UserRaise
    \/ UserReject
    \/ UserYield
    \/ UserResume
    \/ GetReturn
    \/ InputEntityFail
    \/ FullChannelFail
    \/ BatchFail
    \/ FullChatFail
    \/ GetEntityFail

Spec == Init /\ [][Next]_vars

(***************************************************************************)
(* A call on a channel whose server keeps one list of participants and     *)
(* answers every request with the slice of the matching ones that the      *)
(* request's offset and page size describe.  The list is short and may     *)
(* repeat a participant, or is long enough for pages of the full size and  *)
(* repeats none.                                                           *)
(***************************************************************************)
ShortLists == SeqsUpTo(Members, MaxShardLen)

LongSizes ==
    {PageSize - 1, PageSize, PageSize + 1, 2 * PageSize, 2 * PageSize + 1}

LongList(size) == [n \in 1..size |-> n]

LongLimits == {NoneLimit, PageSize, PageSize + 1, 2 * PageSize + 1}

\* the calls on a channel, given the server's lists and the limits: a long
\* list comes with a limit of its size and no search or filter
SliceCalls(short, long, limits) ==
    /\ caller = "iter"
    /\ args \in [entity : {e \in Entities : e.kind = "channel"},
                 limit : LimitArgs \cup limits, search : SearchArgs,
                 filter : FilterArgs, aggressive : BOOLEAN, total : {FALSE}]
    /\ Begin
    /\ server \in {[slices |-> TRUE, list |-> l] : l \in short \cup long}
    /\ IF server.list \in long
       THEN /\ args.limit \in limits
            /\ args.search = << >>
            /\ args.filter = NoFilter
       ELSE args.limit \in LimitArgs
    /\ other = << >>
    /\ cur = 1
    /\ alone = << >>

\* short lists, and one list of more than a page
InitSlice ==
    SliceCalls(ShortLists, {LongList(PageSize + 1)}, {NoneLimit, PageSize})

\* long lists around one and two pages
InitPages == SliceCalls({}, {LongList(size) : size \in LongSizes}, LongLimits)

\* the steps of a call on a channel whose requests are all answered
NextSlice ==
    \/ IterStart
    \/ ChannelPlan
    \/ LoopExit
    \/ LoopBreak
    \/ Batch
    \/ ForEnd
    \/ Retire
    \/ Advance
    \/ ParticipantsEnd
    \/ ParticipantRaise
    \/ ParticipantSkip
    \/ ParticipantYield
    \/ ChannelResume

\* the generator runs on when it can and the caller keeps asking for the
\* next user
SpecSlice == InitSlice /\ [][NextSlice]_vars /\ WF_vars(NextSlice)

\* the steps a call without search or filter takes when the lists repeat
\* no participant
NextPages ==
    \/ IterStart
    \/ ChannelPlan
    \/ LoopExit
    \/ Batch
    \/ ForEnd
    \/ Retire
    \/ Advance
    \/ ParticipantsEnd
    \/ ParticipantSkip
    \/ ParticipantYield
    \/ ChannelResume

SpecPages == InitPages /\ [][NextPages]_vars

(***************************************************************************)
(* Two calls of one client.  The variables above are the locals of the     *)
(* call that runs; those of the call that waits at an await or a yield are *)
(* kept in `other`.  Each call first runs alone, then both start again and *)
(* run interleaved, against the same server.                               *)
(***************************************************************************)
\* the locals of the running call
Frame ==
    [args |-> args, caller |-> caller, pc |-> pc, error |-> error,
     filter |-> filter, search |-> search, limit |-> limit,
     total |-> total, cell |-> cell, writes |-> writes,
     requests |-> requests, results |-> results, i |-> i, j |-> j,
     seen |-> seen, full |-> full, have |-> have, ylog |-> ylog,
     sent |-> sent, rpc |-> rpc, fe |-> fe, participants |-> participants,
     ret |-> ret]

\* the locals of a call of caller c with arguments a before its first step
Fresh(a, c) ==
    [args |-> a,
     caller |-> c,
     pc |-> IF c = "get" THEN "get" ELSE "start",
     error |-> "",
     filter |-> a.filter,
     search |-> a.search,
     limit |-> a.limit,
     total |-> 0,
     cell |-> [given |-> a.total, val |-> 0],
     writes |-> 0,
     requests |-> << >>,
     results |-> << >>,
     i |-> 0,
     j |-> 0,
     seen |-> {},
     full |-> NoFull,
     have |-> 0,
     ylog |-> << >>,
     sent |-> << >>,
     rpc |-> [input_entity |-> 0, full_channel |-> 0, batches |-> 0,
                full_chat |-> 0, get_entity |-> 0],
     fe |-> NoCall,
     participants |-> << >>,
     ret |-> NoRet]

\* the running call continues with the locals f
Load(f) ==
    /\ args' = f.args
    /\ caller' = f.caller
    /\ pc' = f.pc
    /\ error' = f.error
    /\ filter' = f.filter
    /\ search' = f.search
    /\ limit' = f.limit
    /\ total' = f.total
    /\ cell' = f.cell
    /\ writes' = f.writes
    /\ requests' = f.requests
    /\ results' = f.results
    /\ i' = f.i
    /\ j' = f.j
    /\ seen' = f.seen
    /\ full' = f.full
    /\ have' = f.have
    /\ ylog' = f.ylog
    /\ sent' = f.sent
    /\ rpc' = f.rpc
    /\ fe' = f.fe
    /\ participants' = f.participants
    /\ ret' = f.ret

\* one seen-set for all calls: a call that runs again finds the set of the
\* call that ran last
ResumedSharingSeen(f) == [f EXCEPT !.seen = seen]

\* the locals a call finds when it runs again are those it left
Resumed(f) == f

\* the call with locals f has come to its end
Ended(f) ==
    \/ f.pc \in {"failed", "returned"}
    \/ f.pc = "done" /\ f.caller = "iter"

\* what a call with locals f has handed to its caller
Outcome(f) ==
    [ylog |-> f.ylog, cell |-> f.cell, ret |-> f.ret, error |-> f.error]

\* a 26 request call with a small limit, a get_participants call without
\* limit, and a call with a local predicate that reports the total
TwoCalls ==
    {<<"iter", [entity |-> [kind |-> "channel", id |-> 0,
                            count |-> AggressiveCap + 1],
                limit |-> 2, search |-> << >>, filter |-> NoFilter,
                aggressive |-> TRUE, total |-> FALSE]>>,
     <<"get", [entity |-> [kind |-> "channel", id |-> 0,
                           count |-> AggressiveCap],
               limit |-> NoneLimit, search |-> << >>, filter |-> NoFilter,
               aggressive |-> FALSE, total |-> FALSE]>>,
     <<"iter", [entity |-> [kind |-> "channel", id |-> 0,
                            count |-> AggressiveCap],
                limit |-> 1, search |-> <<"A">>,
                filter |-> FilterInst("ChannelParticipantsAdmins"),
                aggressive |-> FALSE, total |-> TRUE]>>}

TwoLists == {<<2, 2, 2>>, <<1, 2, 3>>, <<1, 3>>}

InitTwo ==
    /\ \E c \in TwoCalls : caller = c[1] /\ args = c[2]
    /\ Begin
    /\ server \in {[slices |-> TRUE, list |-> l] : l \in TwoLists}
    /\ other \in {Fresh(c[2], c[1]) : c \in TwoCalls}
    /\ cur = 1
    /\ alone = << >>

\* a call that ran alone has ended: what it handed out is kept, and the
\* other call runs alone, or both start again
FinishAlone ==
    /\ Len(alone) < 2
    /\ Ended(Frame)
    /\ alone' = Append(alone, Outcome(Frame))
    /\ Load(other)
    /\ other' = Fresh(args, caller)
    /\ cur' = 3 - cur
    /\ UNCHANGED server

\* the running call waits at an await, a yield or its end, and the event
\* loop runs the other call
Switch ==
    /\ Len(alone) = 2
    /\ pc \notin {"for_i", "for_p"}
    /\ Load(Resumed(other))
    /\ other' = Frame
    /\ cur' = 3 - cur
    /\ UNCHANGED << server, alone >>

NextTwo ==
    \/ get_participants
    \/ IterStart
    \/ ChannelPlan
    \/ LoopExit
    \/ LoopBreak
    \/ Batch
    \/ ForEnd
    \/ Retire
    \/ Advance
    \/ ParticipantsEnd
    \/ ParticipantRaise
    \/ ParticipantSkip
    \/ ParticipantYield
    \/ ChannelResume
    \/ GetReturn
    \/ FinishAlone
    \/ Switch

SpecTwo == InitTwo /\ [][NextTwo]_vars

(***************************************************************************)
(* Properties.                                                             *)
(***************************************************************************)
\* the users yielded so far, in yield order
Yielded == [n \in 1..Len(ylog) |-> ylog[n].user]

\* the states of the pagination loop, lines 109-138
InLoop == pc \in {"loop", "for_i", "for_p", "yield_channel"}

\* the call ended without an exception
EndedNormally == pc \in {"done", "returned"} /\ error = ""

\* C1: the number of users yielded so far never exceeds the limit, for
\* every entity kind and whatever the server answers.
C1_YieldedWithinLimit == Len(ylog) <= ConvertLimit(args.limit)

\* C1: an aggressive call ended at its limit while the responses of its
\* last batch still held a user that was never yielded.
C1_Witness ==
    /\ pc = "done"
    /\ Len(sent) = Len(Letters)
    /\ Len(ylog) = limit
    /\ \E n \in 1..Len(results) : \E m \in 1..Len(results[n].participants) :
           results[n].participants[m].user_id \notin seen

\* C2: no two yields of one call carry the same user identifier.
C2_YieldedDistinct ==
    \A m, n \in 1..Len(ylog) : ylog[m].user.id = ylog[n].user.id => m = n

\* C2: under aggressive sharding, a record of a user yielded before from
\* another response was just passed over.
C2_Witness ==
    /\ pc = "for_p"
    /\ Len(sent) = Len(Letters)
    /\ j > 1
    /\ results[i].participants[j - 1].user_id \in seen
    /\ \E n \in 1..Len(ylog) :
           /\ ylog[n].user.id = results[i].participants[j - 1].user_id
           /\ << ylog[n].batch, ylog[n].idx >> # << rpc.batches, i >>

\* C3: a basic group whose participant list is forbidden ends the call
\* normally, with nothing yielded and total 0, whatever the options, also
\* without a cell.
C3_ForbiddenEndsNormally ==
    (full.fetched /\ ~full.resolved) =>
        /\ EndedNormally
        /\ ylog = << >>
        /\ cell.given => cell.val = 0

\* the yields of one batch of the channel path, as pairs of positions in ylog
SameBatchPairs ==
    {<<m, n>> \in (1..Len(ylog)) \X (1..Len(ylog)) :
        /\ m < n
        /\ ylog[m].batch >= 1
        /\ ylog[m].batch = ylog[n].batch}

\* the yields of the batch being processed are the records of its responses
FromResponses ==
    \A n \in 1..Len(ylog) :
        (InLoop /\ ylog[n].batch = rpc.batches /\ ylog[n].batch >= 1) =>
            /\ ylog[n].idx \in 1..Len(results)
            /\ ylog[n].pos \in 1..Len(results[ylog[n].idx].participants)
            /\ ylog[n].user.participant =
                   results[ylog[n].idx].participants[ylog[n].pos]
            /\ ylog[n].user.id = ylog[n].user.participant.user_id

\* C4 as stated: within a batch the users of the response to an earlier
\* request of the list come before those of a later request, and within a
\* response in the order of its records.
C4_RequestListOrder ==
    /\ FromResponses
    /\ \A pr \in SameBatchPairs :
           \/ ylog[pr[1]].idx < ylog[pr[2]].idx
           \/ ylog[pr[1]].idx = ylog[pr[2]].idx /\ ylog[pr[1]].pos < ylog[pr[2]].pos

\* C4 amended: within a batch the users of the response to a later request
\* of the list come before those of an earlier request (the responses are
\* walked from the last to the first), and within a response in the order
\* of its records.
C4_ReverseRequestListOrder ==
    /\ FromResponses
    /\ \A pr \in SameBatchPairs :
           \/ ylog[pr[1]].idx > ylog[pr[2]].idx
           \/ ylog[pr[1]].idx = ylog[pr[2]].idx /\ ylog[pr[1]].pos < ylog[pr[2]].pos

\* C4: one batch yielded users from two responses, and two from one response.
C4_Witness ==
    /\ \E pr \in SameBatchPairs : ylog[pr[1]].idx # ylog[pr[2]].idx
    /\ \E pr \in SameBatchPairs : ylog[pr[1]].idx = ylog[pr[2]].idx

\* C5: the initial request list of a channel (limit not 0) has the 26
\* letter searches, offset 0 and page size 200, exactly when the count is
\* above 10000, aggressive is set and no filter is given; otherwise it has
\* one request with the given filter, or else a search on the search string.
C5_InitialRequestList ==
    (pc = "loop" /\ rpc.batches = 0) =>
        IF args.entity.count > 10000 /\ args.aggressive /\ args.filter = NoFilter
        THEN /\ Len(requests) = 26
             /\ \A n \in 1..26 :
                   requests[n] =
                       [filter |-> [tag |-> "inst",
                                    name |-> "ChannelParticipantsSearch",
                                    hasq |-> TRUE,
                                    q |-> args.search \o <<Letters[n]>>],
                        offset |-> 0, limit |-> 200]
        ELSE /\ Len(requests) = 1
             /\ requests[1].offset = 0
             /\ requests[1].limit = 200
             /\ requests[1].filter =
                    IF args.filter = NoFilter
                    THEN [tag |-> "inst", name |-> "ChannelParticipantsSearch",
                          hasq |-> TRUE, q |-> args.search]
                    ELSE [tag |-> "inst", name |-> args.filter.name,
                          hasq |-> args.filter.name = "ChannelParticipantsSearch",
                          q |-> << >>]

\* C5: the 26 requests were planned, the last one for search + "z".
C5_Witness ==
    /\ pc = "loop"
    /\ rpc.batches = 0
    /\ Len(requests) = 26
    /\ requests[26].filter.q = args.search \o <<"z">>

\* C6: the cell is assigned at most once in a call, and never after a yield.
C6_TotalWrittenOnceBeforeYield ==
    [][(cell'.val # cell.val \/ writes' # writes) =>
           (writes = 0 /\ writes' = 1 /\ ylog = << >>)]_vars

\* C6: the total was written and users were yielded after it.
C6_Witness == cell.given /\ writes = 1 /\ Len(ylog) >= 2

\* the total a call reports, by entity kind
ExpectedTotal ==
    CASE args.entity.kind = "channel" -> args.entity.count
      [] args.entity.kind = "chat" ->
             IF full.resolved THEN Len(full.participants) ELSE 0
      [] OTHER -> 1

\* C7: the list get_participants returns holds the yielded users in yield
\* order, and its total is the value the generator wrote to the cell:
\* the channel's count, the number of records of a resolved basic group, 0
\* for a forbidden one, 1 for a single user.
C7_ListEqualsYielded ==
    ret.returned =>
        /\ ret.items = Yielded
        /\ writes = 1
        /\ ret.total = cell.val
        /\ ret.total = ExpectedTotal

\* C7: a list of several users was returned.
C7_Witness == ret.returned /\ Len(ret.items) >= 2 /\ ret.total >= 2

\* C8: with limit 0 nothing is yielded, no participants request and no
\* user resolution is issued, and a call that ends has reported the total
\* to the cell it was given (for a channel after fetching the count).
C8_LimitZero ==
    args.limit = 0 =>
        /\ ylog = << >>
        /\ rpc.batches = 0
        /\ rpc.get_entity = 0
        /\ (EndedNormally /\ cell.given) =>
               /\ writes = 1
               /\ cell.val = ExpectedTotal
               /\ args.entity.kind = "channel" => rpc.full_channel = 1

\* C8: a call with limit 0 and a cell ended, on a channel.
C8_Witness ==
    /\ args.limit = 0
    /\ pc = "done"
    /\ cell.given
    /\ args.entity.kind = "channel"
    /\ cell.val = args.entity.count

\* the reference of C9: with a search string and (a filter or no channel),
\* true exactly when the lower-cased search string is in the lower-cased
\* display name or username, false for a user without username whose name
\* does not match; true in every other case
ReferenceMatch(ent) ==
    IF args.search # << >> /\ (args.filter # NoFilter \/ args.entity.kind # "channel")
    THEN IF \/ IsSubstring(Lower(args.search), Lower(ent.name))
            \/ /\ ent.username.some
               /\ ent.username.s # << >>
               /\ IsSubstring(Lower(args.search), Lower(ent.username.s))
         THEN "True"
         ELSE "False"
    ELSE "True"

\* C9: every application of the local predicate gives what the reference
\* gives, and so never raises.
C9_PredicateIsReference ==
    fe.applied => fe.res = ReferenceMatch(UserTable[fe.ent])

\* C10 as stated: in the pagination loop the offset of every request of
\* the list is at most the limit.
C10_OffsetsWithinLimit ==
    InLoop => \A n \in 1..Len(requests) : requests[n].offset <= limit

\* C10 amended: the first request of every issued batch has an offset of at
\* most the limit, and when the list was planned with a single request
\* (the server returning at most the page size asked) the offset of its
\* request is at most the limit throughout the loop.
C10_FirstOffsetWithinLimit ==
    /\ sent # << >> => sent[1].offset <= limit
    /\ (InLoop /\ ~IsAggressive(total)) =>
           \A n \in 1..Len(requests) : requests[n].offset <= limit

\* C10: in a 26 request list a request other than the first is past the limit.
C10_Witness ==
    /\ InLoop
    /\ Len(sent) = Len(Letters)
    /\ sent[1].offset <= limit
    /\ \E n \in 2..Len(requests) : requests[n].offset > limit

\* C11: the step in which a request fails ends the call with that failure
\* and yields nothing, and after it no request is issued (the failed one
\* included), no user is yielded and no list is returned.
C11_FailurePropagates ==
    [][/\ (error # "RpcError" /\ error' = "RpcError") =>
              /\ pc' = "failed"
              /\ ylog' = ylog
              /\ \E r \in DOMAIN rpc : rpc' = [rpc EXCEPT ![r] = @ + 1]
       /\ error = "RpcError" =>
              /\ error' = "RpcError"
              /\ pc' = "failed"
              /\ rpc' = rpc
              /\ sent' = sent
              /\ ylog' = ylog
              /\ ret' = NoRet]_vars

\* C11: a later batch failed after users were yielded from an earlier one.
C11_Witness ==
    /\ pc = "failed"
    /\ error = "RpcError"
    /\ rpc.batches >= 2
    /\ ylog # << >>
    /\ ~ret.returned

\* the call took the channel path with a limit other than 0
ChannelCall == args.entity.kind = "channel" /\ ConvertLimit(args.limit) # 0

\* C13 as stated: a channel call with limit # 0 that ended without an
\* error has retired every request or has yielded limit users.
C13_EndsEmptyOrAtLimit ==
    (ChannelCall /\ EndedNormally) =>
        requests = << >> \/ Len(ylog) = limit

\* C13 amended: such a call has retired every request, or has yielded
\* limit users, or the first remaining request of a 26 request list has an
\* offset greater than the limit.
C13_EndsEmptyAtLimitOrPast ==
    (ChannelCall /\ EndedNormally) =>
        \/ requests = << >>
        \/ Len(ylog) = limit
        \/ /\ IsAggressive(total)
           /\ requests[1].offset > limit

\* C13: the loop was left at line 118 with requests remaining and fewer
\* than limit users yielded.
C13_Witness ==
    /\ ChannelCall
    /\ EndedNormally
    /\ requests # << >>
    /\ Len(ylog) < limit
    /\ requests[1].offset > limit

\* the response at index i of the batch is being applied and has users
Advancing == pc = "for_i" /\ i >= 1 /\ results[i].users # {}

\* C14: every request of the list was in the list before the step with an
\* offset not greater than now; the request whose response with users is
\* applied gains exactly the number of records of that response, and every
\* other request, in a step that retires one too, keeps its offset.
C14_OffsetsAdvanceByRecords ==
    [][requests # << >> =>
          \A n \in 1..Len(requests') :
              \E m \in 1..Len(requests) :
                  /\ requests[m].filter = requests'[n].filter
                  /\ requests'[n].offset >= requests[m].offset
                  /\ requests'[n].offset - requests[m].offset =
                         IF Advancing /\ m = i
                         THEN Len(results[i].participants)
                         ELSE 0]_vars

\* C14: the offset was advanced over a response that repeats a record and
\* holds a user already in the seen-set.
C14_Witness ==
    /\ pc = "for_p"
    /\ j = 1
    /\ requests[i].offset = sent[i].offset + Len(results[i].participants)
    /\ Len(results[i].participants) > Cardinality(results[i].users)
    /\ results[i].users \cap seen # {}

\* C15: in every issued batch the first request has page size
\* min(limit - offset, 200) and an offset of at most the limit, every other
\* request has page size 200, and so all page sizes are in 0..200.
C15_PageSizes ==
    sent # << >> =>
        /\ sent[1].limit = Min(limit - sent[1].offset, PageSize)
        /\ sent[1].offset <= limit
        /\ \A n \in 2..Len(sent) : sent[n].limit = PageSize
        /\ \A n \in 1..Len(sent) : sent[n].limit \in 0..PageSize

\* C15: a batch of several requests was issued whose first request had
\* advanced to the limit and so asks for a page of 0.
C15_Witness ==
    /\ Len(sent) > 1
    /\ sent[1].offset > 0
    /\ sent[1].offset = limit
    /\ sent[1].limit = 0
    /\ sent[2].limit = PageSize

\* the filters of the first k requests of the issued batch whose response
\* has users, in the order of the batch
RECURSIVE Surviving(_)
Surviving(k) ==
    IF k = 0
    THEN << >>
    ELSE Surviving(k - 1) \o
             (IF results[k].users # {} THEN << sent[k].filter >> ELSE << >>)

\* the filters of a request list
Filters(reqs) == [n \in 1..Len(reqs) |-> reqs[n].filter]

\* the responses of the batch are being walked, index i is the current one
InBatch == pc \in {"for_i", "for_p", "yield_channel"} /\ i >= 1

\* C16: while a batch is walked, the request at the current index and at
\* every index before it is the one issued at that index; the step at
\* index i removes that request when its response has no users, changes
\* at most its offset otherwise, and touches no other request; and the
\* batch issued next consists of exactly the requests of this batch whose
\* response had users, in the same order.
C16_ResponsesMeetTheirRequests ==
    [][/\ InBatch =>
              \A n \in 1..i : requests[n].filter = sent[n].filter
       /\ (pc = "for_i" /\ i >= 1) =>
              IF results[i].users = {}
              THEN requests' = [n \in 1..(Len(requests) - 1) |->
                                  IF n < i THEN requests[n]
                                           ELSE requests[n + 1]]
              ELSE /\ Filters(requests') = Filters(requests)
                   /\ \A n \in 1..Len(requests) :
                          n # i => requests'[n] = requests[n]
       /\ (pc = "loop" /\ sent # << >> /\ sent' # sent) =>
              Filters(sent') = Surviving(Len(sent))]_vars

\* C16: in a second or later batch of several requests, a response with
\* users is applied at an index below one whose request was retired.
C16_Witness ==
    /\ rpc.batches >= 2
    /\ pc = "for_p"
    /\ i >= 1
    /\ Len(sent) < Len(Letters)
    /\ Len(requests) < Len(sent)
    /\ requests[i].filter = sent[i].filter
    /\ requests[i].offset > sent[i].offset

\* the channel path holds limit users in the seen-set
SeenAtLimit ==
    /\ args.entity.kind = "channel"
    /\ pc \in {"loop", "for_i", "for_p", "yield_channel", "done", "returned"}
    /\ Cardinality(seen) >= limit

\* C17: the seen-set holds limit users in the loop only at the yield that
\* added the last of them; the next step of the generator ends it, and from
\* then on no user is yielded, no record is looked at and no request issued.
C17_EndsAtLimit ==
    [][SeenAtLimit =>
          /\ pc \in {"yield_channel", "done", "returned"}
          /\ pc = "yield_channel" => pc' = "done"
          /\ ylog' = ylog
          /\ seen' = seen
          /\ fe' = fe
          /\ sent' = sent
          /\ rpc' = rpc]_vars

\* C17: the call ended at the limit with records of the current response
\* and responses of the current batch not looked at, and requests left.
C17_Witness ==
    /\ SeenAtLimit
    /\ pc = "done"
    /\ limit > 0
    /\ Len(ylog) = limit
    /\ i > 1
    /\ j < Len(results[i].participants)
    /\ \E n \in 1..(i - 1) : results[n].users # {}
    /\ Len(requests) > 1

\* the records of the basic group whose user the reference predicate passes
Passing ==
    SelectSeq(full.participants,
              LAMBDA p : ReferenceMatch(UserTable[p.user_id]) = "True")

\* a call on a basic group with a resolved list has come to its end, every
\* request answered
ChatCallEnded ==
    /\ args.entity.kind = "chat"
    /\ full.resolved
    /\ pc \in {"done", "returned", "failed"}
    /\ error # "RpcError"

\* C19: a call on a basic group with a resolved list of distinct users ends
\* without an exception having yielded the first min(limit, m) of the m
\* records that pass the predicate, in the order of the list, each user
\* with its own record, and the total written is the length of the list.
C19_BasicGroupYields ==
    ChatCallEnded =>
        /\ error = ""
        /\ [n \in 1..Len(ylog) |-> ylog[n].user.participant] =
               SubSeq(Passing, 1, Min(limit, Len(Passing)))
        /\ \A n \in 1..Len(ylog) :
               ylog[n].user.id = ylog[n].user.participant.user_id
        /\ cell.given => (writes = 1 /\ cell.val = Len(full.participants))

\* C18: against a server that answers with slices of finite lists, a call
\* whose caller keeps pulling comes to its end.
C18_Terminates == <>(pc \in {"done", "failed"})

\* C18: a call on 26 shards without limit ended after more than one batch,
\* having yielded every participant of a list that repeats one.
C18_Witness ==
    /\ server.slices
    /\ pc = "done"
    /\ Len(sent) > 1
    /\ rpc.batches >= 2
    /\ limit = Infinity
    /\ requests = << >>
    /\ ~Distinct(server.list)
    /\ Len(ylog) >= 2

\* the call plans a single request and applies no local predicate
SinglePlain ==
    /\ ~(args.aggressive /\ args.entity.count > AggressiveCap
           /\ ~Truthy(NormalizeFilter(args.filter)))
    /\ ~UsesLocalSearch(args.search, NormalizeFilter(args.filter), args.entity)

\* the participants the server holds for the filter of the single request
Held == ListFor(InitialRequests(total)[1].filter)

\* the users of the records of a list
Ids(recs) == [n \in 1..Len(recs) |-> recs[n].user_id]

\* C20: a call with a single request and no local predicate, on a server
\* that answers with slices of N distinct participants, has yielded at
\* every moment the first participants of the server's list, each from
\* the record at the same place of the list, and it ends without an
\* exception having yielded min(limit, N) of them.
C20_YieldsFirstOfList ==
    (server.slices /\ SinglePlain /\ pc \notin {"start", "body"}) =>
        LET held == Held
            first == SubSeq(held, 1, Min(Len(ylog), Len(held)))
        IN  Cardinality({held[n] : n \in 1..Len(held)}) = Len(held) =>
                /\ [n \in 1..Len(ylog) |-> ylog[n].user.id] = first
                /\ Ids([n \in 1..Len(ylog) |-> ylog[n].user.participant]) = first
                /\ pc # "failed"
                /\ pc = "done" => Len(ylog) = Min(limit, Len(held))

\* C20: all participants of a list of two pages and one more were yielded
\* to a call without limit.
C20_Witness ==
    /\ server.slices
    /\ SinglePlain
    /\ pc = "done"
    /\ limit = Infinity
    /\ Len(Held) = 2 * PageSize + 1
    /\ Len(ylog) = Len(Held)
    /\ rpc.batches = 4

\* whether s is the beginning of t
IsPrefix(s, t) == Len(s) <= Len(t) /\ s = SubSeq(t, 1, Len(s))

\* the call with locals f, which alone handed out `solo`, has so far
\* yielded a beginning of what it yielded alone, holds in its seen-set the
\* users it yielded itself, and has at its end handed out the same
SameAsAlone(f, solo) ==
    /\ IsPrefix(f.ylog, solo.ylog)
    /\ f.seen = {f.ylog[n].user.id : n \in 1..Len(f.ylog)}
    /\ Ended(f) => Outcome(f) = solo

\* C12: of two calls whose steps are interleaved, each yields what it
\* yielded running alone against the same server, in the same order, keeps
\* its own seen-set, and hands out the same users, total and result.
C12_InterleavedAsAlone ==
    Len(alone) = 2 =>
        /\ SameAsAlone(Frame, alone[cur])
        /\ SameAsAlone(other, alone[3 - cur])

\* C12: one of two interleaved calls has ended as it did alone while the
\* other, with other arguments, waits at a yield having yielded a user the
\* first yielded too.
C12_Witness ==
    /\ Len(alone) = 2
    /\ Ended(Frame)
    /\ Outcome(Frame) = alone[cur]
    /\ other.pc = "yield_channel"
    /\ other.args # args
    /\ seen \cap other.seen # {}
    /\ Len(ylog) >= 2

====
